---- MODULE Spec2Model ----
(***************************************************************************)
(* EssayBookGenerator (src/bot.py): a fixed theme matrix is walked, one    *)
(* completion request is made per theme and genre through a bounded retry  *)
(* loop, and the essays gathered so far are merged into full_data and      *)
(* rendered into one Markdown file after every stored essay.               *)
(*                                                                         *)
(* Python objects that are shared by reference (the category dicts and the *)
(* theme dicts) live in two heaps, cats and thms; lists hold indices into  *)
(* them, so that two list slots naming one dict are one object.            *)
(* A Python str is either one atom (a name) or a sequence of atoms (a      *)
(* text built by concatenation).  The Chinese literals of the source are   *)
(* written in short pinyin: fenlei, zhuti, guanjianci, jixuwen, yilunwen.  *)
(* A theme dict is a record of its three fixed keys and its two optional   *)
(* keys, narrative and argumentative, which hold None while the key is     *)
(* absent.                                                                 *)
(***************************************************************************)
EXTENDS Naturals, Sequences, FiniteSets

VARIABLES
  cats,              \* heap of category dicts: [fenlei, themes (list of theme refs)]
  thms,              \* heap of theme dicts (theme_data objects)
  full_data,         \* generate_book's full_data: list of category refs
  file,              \* text of the saved Markdown file, NoFile before a write
  pc,                \* control point
  stack,             \* who called call_deepseek: "book", "single" or "direct"
  ci,                \* index of category_info in theme_matrix
  ti,                \* index of theme in category_info's themes
  current_category,  \* ref of generate_book's current_category
  theme_data,        \* ref of generate_book's theme_data / theme_info argument
  genre,             \* genre of the request in progress
  prompt,            \* call_deepseek's prompt
  retry,             \* call_deepseek's retry
  attempt,           \* call_deepseek's loop variable
  log,               \* events of the call_deepseek invocation in progress
  result,            \* value returned to the test driver
  requests,          \* number of generate_single_essay calls made by generate_book
  outcomes,          \* per request of generate_book, what generate_single_essay returned
  snap               \* test driver: the data before and between two _update_data calls

vars == <<cats, thms, full_data, file, pc, stack, ci, ti, current_category,
          theme_data, genre, prompt, retry, attempt, log, result, requests,
          outcomes, snap>>

\* Python's None, for a value that is otherwise held as Some(v)
None == <<>>
Some(v) == <<v>>
\* no genre
NoGenre == "none"
\* the file does not exist (build_markdown never yields the empty text)
NoFile == <<>>

\* ------------------------------------------------------------- constants

\* default of call_deepseek's retry parameter
DefaultRetry == 3

\* self.theme_matrix: chengzhang lei (jianchi, cuozhe, ziwo tupo), qinggan lei
\* (qinqing, shisheng qing, moshengren wennuan), shehui lei (chuantong wenhua,
\* keji lunli, huanjing baohu), each with its two keywords
theme_matrix ==
  << [fenlei |-> "czlei", zhuti |-> <<"jianchi", "cuozhe", "tupo">>,
      guanjianci |-> <<"chzh", "yongqi">>],
     [fenlei |-> "qglei", zhuti |-> <<"qinqing", "shisheng", "moshengr">>,
      guanjianci |-> <<"wennuan", "gandong">>],
     [fenlei |-> "shlei", zhuti |-> <<"chuantong", "keji", "huanjing">>,
      guanjianci |-> <<"chuanch", "zeren">>] >>

Lit(s) == [kind |-> "lit", text |-> s]
Field(s) == [kind |-> "field", text |-> s]

\* self.template: the literal text between two replacement fields is one atom
\* (N0..N3 and A0, A1 stand for the literal text of the two templates)
template ==
  [narrative |->
     << Lit("N0"), Field("theme"), Lit("N1"), Field("object"),
        Lit("N2"), Field("object"), Lit("N3") >>,
   argumentative |->
     << Lit("A0"), Field("theme"), Lit("A1"), Field("keywords") >>]

Genres == {"narrative", "argumentative"}

\* the separator of "、".join
Dunhao == ","

Whitespace == {" ", "\n", "\t"}

\* ------------------------------------------------------------- dicts

\* k in d, for an optional key k of a theme dict
HasKey(d, k) == d[k] # None

\* d[k] = v, for an optional key k of a theme dict
SetKey(d, k, v) == [d EXCEPT ![k] = Some(v)]

\* a variant of dict.update that fills in only the keys dst lacks (setdefault)
DictSetDefault(dst, src) ==
  [fenlei |-> dst.fenlei,
   zhuti |-> dst.zhuti,
   guanjianci |-> dst.guanjianci,
   narrative |-> IF HasKey(dst, "narrative") THEN dst.narrative ELSE src.narrative,
   argumentative |->
     IF HasKey(dst, "argumentative") THEN dst.argumentative ELSE src.argumentative]

\* dict.update: every key of src is written over dst, the other keys of dst stay
DictUpdate(dst, src) ==
  [fenlei |-> src.fenlei,
   zhuti |-> src.zhuti,
   guanjianci |-> src.guanjianci,
   narrative |-> IF HasKey(src, "narrative") THEN src.narrative ELSE dst.narrative,
   argumentative |->
     IF HasKey(src, "argumentative") THEN src.argumentative ELSE dst.argumentative]

RECURSIVE FindCategory(_, _, _, _)
\* next((c for c in data if c["fenlei"] == name), None): the index in data of the
\* first category of that name at or after i, 0 for None
FindCategory(C, data, name, i) ==
  IF i > Len(data) THEN 0
  ELSE IF C[data[i]].fenlei = name THEN i
  ELSE FindCategory(C, data, name, i + 1)

RECURSIVE FindTheme(_, _, _, _)
\* next((t for t in themes if t["zhuti"] == name), None), likewise
FindTheme(T, themes, name, i) ==
  IF i > Len(themes) THEN 0
  ELSE IF T[themes[i]].zhuti = name THEN i
  ELSE FindTheme(T, themes, name, i + 1)

\* ------------------------------------------------------------- strings

RECURSIVE Join(_, _)
\* sep.join(list)
Join(sep, list) ==
  IF Len(list) = 0 THEN <<>>
  ELSE IF Len(list) = 1 THEN <<list[1]>>
  ELSE <<list[1], sep>> \o Join(sep, Tail(list))

RECURSIVE lstrip(_)
lstrip(s) ==
  IF s # <<>> /\ s[1] \in Whitespace THEN lstrip(Tail(s)) ELSE s

RECURSIVE rstrip(_)
rstrip(s) ==
  IF s # <<>> /\ s[Len(s)] \in Whitespace THEN rstrip(SubSeq(s, 1, Len(s) - 1)) ELSE s

\* str.strip()
strip(s) == rstrip(lstrip(s))

RECURSIVE format(_, _)
\* str.format(**kwargs): one pass over the template, each replacement field
\* replaced by the text of its argument, the argument's text not scanned again
format(tpl, kwargs) ==
  IF tpl = <<>> THEN <<>>
  ELSE (IF tpl[1].kind = "field" THEN kwargs[tpl[1].text] ELSE <<tpl[1].text>>)
       \o format(Tail(tpl), kwargs)

\* ------------------------------------------------- generate_single_essay

\* theme_info["guanjianci"][0] raises IndexError on an empty list
PromptRaises(theme_info) == Len(theme_info.guanjianci) = 0

\* a variant of the prompt that takes the last keyword for {object}
BuildPromptLastKeyword(theme_info, g) ==
  format(template[g],
         [theme |-> <<theme_info.zhuti>>,
          object |-> <<theme_info.guanjianci[Len(theme_info.guanjianci)]>>,
          keywords |-> Join(Dunhao, theme_info.guanjianci)])

\* the prompt of generate_single_essay
BuildPrompt(theme_info, g) ==
  format(template[g],
         [theme |-> <<theme_info.zhuti>>,
          object |-> <<theme_info.guanjianci[1]>>,
          keywords |-> Join(Dunhao, theme_info.guanjianci)])

\* the label of a genre in essay_data["metadata"]
Wenti(g) == IF g = "narrative" THEN "jixuwen" ELSE "yilunwen"

\* essay_data of generate_single_essay; the wall-clock stamp is opaque
EssayData(content, theme_info, g) ==
  [content |-> strip(content),
   metadata |-> [shijian |-> "now",
                 wenti |-> Wenti(g),
                 guanjianci |-> theme_info.guanjianci]]

\* a variant of generate_single_essay without its test of content: a missing
\* content is taken for an empty one
generate_single_essay_unchecked(content, theme_info, g) ==
  Some(EssayData(IF content = None THEN <<>> ELSE content[1], theme_info, g))

\* what generate_single_essay returns for call_deepseek's result
generate_single_essay_result(content, theme_info, g) ==
  IF content = None \/ content[1] = <<>> THEN None
  ELSE Some(EssayData(content[1], theme_info, g))

\* ------------------------------------------------------- build_markdown

\* the pieces of text build_markdown puts around the values: the title, "## ",
\* "### zhuti:", the opening and the closing of the keyword line, the two genre
\* headings with their rule, and the rule that closes an essay
H1 == "# wenku"
H2 == "## "
H3 == "### "
KwOpen == "**kw**"
KwClose == "/kw"
H4Narrative == "#### jx"
H4Argumentative == "#### yl"
Rule == "---"

\* a variant of the text of a theme dict with the two genre headings exchanged
ThemeMarkdownSwapped(theme) ==
  <<H3, theme.zhuti, "\n">>
  \o <<KwOpen>> \o Join(Dunhao, theme.guanjianci) \o <<KwClose>>
  \o (IF HasKey(theme, "narrative")
      THEN <<H4Argumentative>> \o theme.narrative[1].content \o <<Rule>> ELSE <<>>)
  \o (IF HasKey(theme, "argumentative")
      THEN <<H4Narrative>> \o theme.argumentative[1].content \o <<Rule>> ELSE <<>>)

\* the text build_markdown adds for one theme dict
ThemeMarkdown(theme) ==
  <<H3, theme.zhuti, "\n">>
  \o <<KwOpen>> \o Join(Dunhao, theme.guanjianci) \o <<KwClose>>
  \o (IF HasKey(theme, "narrative")
      THEN <<H4Narrative>> \o theme.narrative[1].content \o <<Rule>> ELSE <<>>)
  \o (IF HasKey(theme, "argumentative")
      THEN <<H4Argumentative>> \o theme.argumentative[1].content \o <<Rule>> ELSE <<>>)

RECURSIVE ThemesMarkdown(_, _)
ThemesMarkdown(T, refs) ==
  IF refs = <<>> THEN <<>>
  ELSE ThemeMarkdown(T[refs[1]]) \o ThemesMarkdown(T, Tail(refs))

RECURSIVE CategoriesMarkdownNonEmpty(_, _, _)
\* a variant that leaves out the heading of a category without themes
CategoriesMarkdownNonEmpty(C, T, data) ==
  IF data = <<>> THEN <<>>
  ELSE (IF C[data[1]].themes = <<>> THEN <<>> ELSE <<H2, C[data[1]].fenlei, "\n\n">>)
       \o ThemesMarkdown(T, C[data[1]].themes)
       \o CategoriesMarkdownNonEmpty(C, T, Tail(data))

RECURSIVE CategoriesMarkdown(_, _, _)
CategoriesMarkdown(C, T, data) ==
  IF data = <<>> THEN <<>>
  ELSE <<H2, C[data[1]].fenlei, "\n\n">> \o ThemesMarkdown(T, C[data[1]].themes)
       \o CategoriesMarkdown(C, T, Tail(data))

\* build_markdown(data) over the heaps C and T
build_markdown(C, T, data) == <<H1>> \o CategoriesMarkdown(C, T, data)

\* ---------------------------------------------------------- _update_data

\* _update_data(full_data, current_category, theme_data) over the heaps C and T:
\* the heaps and the list after the call
_update_data(C, T, fd, cc, td) ==
  LET k == FindCategory(C, fd, C[cc].fenlei, 1)
  IN  IF k = 0
      THEN [cats |-> C, thms |-> T, full_data |-> Append(fd, cc)]
      ELSE LET target == fd[k]
               e == FindTheme(T, C[target].themes, T[td].zhuti, 1)
           IN  IF e # 0
               THEN [cats |-> C,
                     thms |-> [T EXCEPT ![C[target].themes[e]] = DictUpdate(@, T[td])],
                     full_data |-> fd]
               ELSE [cats |-> [C EXCEPT ![target].themes = Append(@, td)],
                     thms |-> T,
                     full_data |-> fd]

\* -------------------------------------------------------- completion API

Min(a, b) == IF a < b THEN a ELSE b

\* What response.choices[0].message.content can be for a prompt: the empty
\* text, or an essay that quotes the head of the prompt (its genre line and
\* its theme) between leading and trailing white space.
ApiContents(p) ==
  { <<>>, <<"\n", " ">> \o SubSeq(p, 1, Min(2, Len(p))) \o <<" ", "\n">> }

\* the requests of one run of generate_book the API leaves without an essay
MaxFailed == 6

\* the requests of generate_book that have ended without an essay
Failed == Cardinality({k \in 1..Len(outcomes) : outcomes[k] = None})

\* the API may leave the current request without an essay: always when
\* call_deepseek or generate_single_essay is called on its own, and for at most
\* MaxFailed requests of one run of generate_book
MayFail == stack # "book" \/ Failed < MaxFailed

\* ------------------------------------------------------------- generate_book

NewCategory(c) == [fenlei |-> theme_matrix[c].fenlei, themes |-> <<>>]

NewThemeData(c, t) ==
  [fenlei |-> theme_matrix[c].fenlei,
   zhuti |-> theme_matrix[c].zhuti[t],
   guanjianci |-> theme_matrix[c].guanjianci,
   narrative |-> None,
   argumentative |-> None]

\* generate_single_essay up to its call of call_deepseek, as generate_book calls it
StartRequest(theme_info, g) ==
  /\ genre' = g
  /\ prompt' = BuildPrompt(theme_info, g)
  /\ retry' = DefaultRetry
  /\ attempt' = 0
  /\ log' = <<>>
  /\ pc' = "call"
  /\ requests' = requests + 1

\* no request in progress
NoRequest ==
  /\ genre' = NoGenre
  /\ prompt' = <<>>
  /\ retry' = 0
  /\ attempt' = 0
  /\ log' = <<>>
  /\ requests' = requests

\* generate_book from its entry to the first completion request
generate_book_begin ==
  /\ pc = "init"
  /\ stack' = "book"
  /\ full_data' = <<>>
  /\ cats' = <<NewCategory(1)>>
  /\ current_category' = 1
  /\ thms' = <<NewThemeData(1, 1)>>
  /\ theme_data' = 1
  /\ ci' = 1
  /\ ti' = 1
  /\ StartRequest(NewThemeData(1, 1), "narrative")
  /\ UNCHANGED <<file, result, outcomes, snap>>

\* generate_book after generate_single_essay returned essay (None or essay_data):
\* the essay is stored, merged and saved, and the next request is made
generate_book_continue(essay) ==
  LET stored == essay # None
      T1 == IF stored THEN [thms EXCEPT ![theme_data] = SetKey(@, genre, essay[1])] ELSE thms
      U == IF stored
           THEN _update_data(cats, T1, full_data, current_category, theme_data)
           ELSE [cats |-> cats, thms |-> thms, full_data |-> full_data]
  IN  /\ cats' = U.cats
      /\ thms' = U.thms
      /\ full_data' = U.full_data
      /\ file' = IF stored THEN build_markdown(U.cats, U.thms, U.full_data) ELSE file
      /\ outcomes' = Append(outcomes, essay)
      /\ IF genre = "narrative"
         THEN StartRequest(U.thms[theme_data], "argumentative")
         ELSE pc' = "theme_end" /\ NoRequest
      /\ UNCHANGED <<stack, ci, ti, current_category, theme_data, result, snap>>

\* a variant of the end of a category that adds it without looking
AppendAlways(C, fd, cc) == Append(fd, cc)

\* the end of a category: it is added to full_data unless one of its name is there
AppendIfAbsent(C, fd, cc) ==
  IF FindCategory(C, fd, C[cc].fenlei, 1) = 0 THEN Append(fd, cc) ELSE fd

\* generate_book after both requests of a theme: the theme is added to the
\* current category, and the loops move on; after the last theme of a category
\* the category is added unless present, after the last category the file is saved
theme_end ==
  /\ pc = "theme_end"
  /\ LET C1 == [cats EXCEPT ![current_category].themes = Append(@, theme_data)]
         lastTheme == ti = Len(theme_matrix[ci].zhuti)
         lastCategory == ci = Len(theme_matrix)
         fd1 == IF lastTheme
                THEN AppendIfAbsent(C1, full_data, current_category) ELSE full_data
     IN  /\ full_data' = fd1
         /\ IF ~lastTheme
            THEN /\ cats' = C1
                 /\ thms' = Append(thms, NewThemeData(ci, ti + 1))
                 /\ theme_data' = Len(thms) + 1
                 /\ ti' = ti + 1
                 /\ StartRequest(NewThemeData(ci, ti + 1), "narrative")
                 /\ UNCHANGED <<ci, current_category, file>>
            ELSE IF ~lastCategory
            THEN /\ cats' = Append(C1, NewCategory(ci + 1))
                 /\ current_category' = Len(C1) + 1
                 /\ thms' = Append(thms, NewThemeData(ci + 1, 1))
                 /\ theme_data' = Len(thms) + 1
                 /\ ci' = ci + 1
                 /\ ti' = 1
                 /\ StartRequest(NewThemeData(ci + 1, 1), "narrative")
                 /\ UNCHANGED file
            ELSE /\ cats' = C1
                 /\ file' = build_markdown(C1, thms, fd1)
                 /\ pc' = "done"
                 /\ NoRequest
                 /\ UNCHANGED <<thms, theme_data, ci, ti, current_category>>
  /\ UNCHANGED <<stack, result, outcomes, snap>>

\* ------------------------------------------------------------- call_deepseek

\* call_deepseek returns r to its caller, after a iterations that logged lg
Return(r, lg, a) ==
  IF stack = "book"
  THEN generate_book_continue(generate_single_essay_result(r, thms[theme_data], genre))
  ELSE /\ pc' = "returned"
       /\ log' = lg
       /\ attempt' = a
       /\ result' = IF stack = "single"
                    THEN generate_single_essay_result(r, thms[theme_data], genre)
                    ELSE r
       /\ UNCHANGED <<cats, thms, full_data, file, stack, ci, ti, current_category,
                      theme_data, genre, prompt, retry, requests, outcomes, snap>>

\* a variant of the loop with one iteration more (range(retry + 1))
LoopRunsInclusive(a, n) == a <= n

\* a variant of the exception handler that does not sleep
OnExceptionNoSleep == <<"raise">>

\* the loop of call_deepseek goes on: range(retry) is not exhausted
LoopRuns(a, n) == a < n

\* what an iteration does when the API call raises: it prints and sleeps 2 s
OnException == <<"raise", "sleep2">>

\* one iteration whose API call raises: the failure is printed and the loop
\* sleeps; after the last iteration of range(retry) None is returned (the API
\* raises in the last iteration only when MayFail)
ApiRaise ==
  /\ pc = "call"
  /\ LoopRuns(attempt, retry)
  /\ LoopRuns(attempt + 1, retry) \/ MayFail
  /\ IF LoopRuns(attempt + 1, retry)
     THEN /\ attempt' = attempt + 1
          /\ log' = log \o OnException
          /\ UNCHANGED <<cats, thms, full_data, file, pc, stack, ci, ti,
                         current_category, theme_data, genre, prompt, retry,
                         result, requests, outcomes, snap>>
     ELSE Return(None, log \o OnException, attempt + 1)

\* one iteration whose API call answers: its content is returned (an empty
\* content only when MayFail)
ApiReturn ==
  /\ pc = "call"
  /\ LoopRuns(attempt, retry)
  /\ \E c \in ApiContents(prompt) :
       /\ c # <<>> \/ MayFail
       /\ Return(Some(c), log \o <<"ok">>, attempt + 1)

\* range(retry) is empty: None is returned without an API call
LoopExit ==
  /\ pc = "call"
  /\ ~LoopRuns(attempt, retry)
  /\ Return(None, log, attempt)

\* ------------------------------------------------------------- the program

Init ==
  /\ cats = <<>>
  /\ thms = <<>>
  /\ full_data = <<>>
  /\ file = NoFile
  /\ pc = "init"
  /\ stack = "book"
  /\ ci = 0
  /\ ti = 0
  /\ current_category = 0
  /\ theme_data = 0
  /\ genre = NoGenre
  /\ prompt = <<>>
  /\ retry = 0
  /\ attempt = 0
  /\ log = <<>>
  /\ result = None
  /\ requests = 0
  /\ outcomes = <<>>
  /\ snap = None

Next == generate_book_begin \/ ApiRaise \/ ApiReturn \/ theme_end

Spec == Init /\ [][Next]_vars

\* ------------------------------------------------------- calls in isolation

\* bounds of the calls made in isolation
MaxRetry == 4
MaxKeywords == 2

\* names and keywords of the test calls; two of them look like replacement fields
TestWords == {"jianchi", "{object}", "{keywords}"}

SeqsUpTo(S, n) == UNION {[1..i -> S] : i \in 0..n}

TestInfos ==
  {[fenlei |-> "czlei", zhuti |-> z, guanjianci |-> k,
    narrative |-> None, argumentative |-> None] :
     z \in TestWords, k \in SeqsUpTo(TestWords, MaxKeywords)}

TestPrompts == {<<w>> : w \in TestWords}

\* generate_single_essay, called on its own, up to its call of call_deepseek
generate_single_essay_begin ==
  /\ pc = "essay"
  /\ IF PromptRaises(thms[theme_data])
     THEN pc' = "raised" /\ UNCHANGED <<prompt, retry>>
     ELSE /\ pc' = "call"
          /\ prompt' = BuildPrompt(thms[theme_data], genre)
          /\ retry' = DefaultRetry
  /\ UNCHANGED <<cats, thms, full_data, file, stack, ci, ti, current_category,
                 theme_data, genre, attempt, log, result, requests, outcomes, snap>>

\* call_deepseek(prompt, retry) or generate_single_essay(theme_info, genre) is
\* called on its own
InitCall ==
  /\ cats = <<>>
  /\ full_data = <<>>
  /\ file = NoFile
  /\ ci = 0
  /\ ti = 0
  /\ current_category = 0
  /\ attempt = 0
  /\ log = <<>>
  /\ result = None
  /\ requests = 0
  /\ outcomes = <<>>
  /\ snap = <<>>
  /\ \/ /\ stack = "direct"
        /\ pc = "call"
        /\ thms = <<>>
        /\ theme_data = 0
        /\ genre = NoGenre
        /\ prompt \in TestPrompts
        /\ retry \in 0..MaxRetry
     \/ /\ stack = "single"
        /\ pc = "essay"
        /\ thms \in {<<i>> : i \in TestInfos}
        /\ theme_data = 1
        /\ genre \in Genres
        /\ prompt = <<>>
        /\ retry = 0

NextCall == generate_single_essay_begin \/ ApiRaise \/ ApiReturn \/ LoopExit

SpecCall == InitCall /\ [][NextCall]_vars

\* ------------------------------------------------- the data in isolation

\* bounds of the data structures: categories in data, theme entries in all
MaxCats == 2
MaxEntries == 3

CatNames == {"czlei", "qglei"}
ThemeNames == {"jianchi", "cuozhe"}
TestKeywords == <<"chzh", "yongqi">>

TestEssay(c, g) ==
  [content |-> <<c>>,
   metadata |-> [shijian |-> "now", wenti |-> Wenti(g), guanjianci |-> TestKeywords]]

\* theme dicts with a narrative among N and an argumentative among A
ThemeDicts(N, A) ==
  {[fenlei |-> "czlei", zhuti |-> z, guanjianci |-> TestKeywords,
    narrative |-> n, argumentative |-> a] : z \in ThemeNames, n \in N, a \in A}

\* the theme dicts of a document: every combination of the two optional keys
RenderedThemes ==
  ThemeDicts({None, Some(TestEssay("e1", "narrative"))},
             {None, Some(TestEssay("e2", "argumentative"))})

\* the theme dicts stored before _update_data is called
StoredThemes == ThemeDicts({Some(TestEssay("e1", "narrative"))}, {None})

\* the theme_data _update_data is called with
ArgThemes ==
  ThemeDicts({None, Some(TestEssay("e3", "narrative"))},
             {None, Some(TestEssay("e4", "argumentative"))})

RECURSIVE Datas(_, _, _)
\* the data structures of at most m categories and e theme entries over theme
\* dicts D, as values: a list of [fenlei, themes (a list of theme dicts)]
Datas(D, m, e) ==
  IF m = 0 THEN {<<>>}
  ELSE {<<>>} \cup
       UNION { { <<[fenlei |-> f, themes |-> th]>> \o d :
                   d \in Datas(D, m - 1, e - Len(th)) } :
               f \in CatNames, th \in SeqsUpTo(D, e) }

RECURSIVE EntriesBefore(_, _)
\* the number of theme entries of the categories of d before the i-th
EntriesBefore(d, i) ==
  IF i <= 1 THEN 0 ELSE EntriesBefore(d, i - 1) + Len(d[i - 1].themes)

RECURSIVE AllThemes(_)
\* the theme entries of d, in order
AllThemes(d) == IF d = <<>> THEN <<>> ELSE d[1].themes \o AllThemes(Tail(d))

\* the objects of the value d are laid out in the heaps, one object per entry
InitHeap(d) ==
  /\ thms = AllThemes(d)
  /\ cats = [i \in 1..Len(d) |->
               [fenlei |-> d[i].fenlei,
                themes |-> [x \in 1..Len(d[i].themes) |-> EntriesBefore(d, i) + x]]]
  /\ full_data = [i \in 1..Len(d) |-> i]

InitRest ==
  /\ file = NoFile
  /\ pc = "data"
  /\ stack = "test"
  /\ ci = 0
  /\ ti = 0
  /\ current_category = 0
  /\ theme_data = 0
  /\ genre = NoGenre
  /\ prompt = <<>>
  /\ retry = 0
  /\ attempt = 0
  /\ log = <<>>
  /\ result = None
  /\ requests = 0
  /\ outcomes = <<>>
  /\ snap = <<>>

Heap == [cats |-> cats, thms |-> thms, full_data |-> full_data]

\* _update_data is called with a category and a theme that are objects of the
\* data or new objects
test_update_data ==
  /\ pc = "data"
  /\ \E cc \in {[ref |-> i, name |-> ""] : i \in 1..Len(cats)}
               \cup {[ref |-> 0, name |-> n] : n \in CatNames} :
       \E td \in {[ref |-> i, val |-> thms[i]] : i \in 1..Len(thms)}
                 \cup {[ref |-> 0, val |-> v] : v \in ArgThemes} :
         LET C1 == IF cc.ref = 0
                   THEN Append(cats, [fenlei |-> cc.name, themes |-> <<>>]) ELSE cats
             T1 == IF td.ref = 0 THEN Append(thms, td.val) ELSE thms
             ccRef == IF cc.ref = 0 THEN Len(cats) + 1 ELSE cc.ref
             tdRef == IF td.ref = 0 THEN Len(thms) + 1 ELSE td.ref
             U == _update_data(C1, T1, full_data, ccRef, tdRef)
         IN  /\ cats' = U.cats
             /\ thms' = U.thms
             /\ full_data' = U.full_data
             /\ current_category' = ccRef
             /\ theme_data' = tdRef
             /\ snap' = <<[cats |-> C1, thms |-> T1, full_data |-> full_data]>>
  /\ pc' = "updated"
  /\ UNCHANGED <<file, stack, ci, ti, genre, prompt, retry, attempt, log, result,
                 requests, outcomes>>

\* _update_data is called again with the same arguments
test_update_data_again ==
  /\ pc = "updated"
  /\ LET U == _update_data(cats, thms, full_data, current_category, theme_data)
     IN  /\ cats' = U.cats
         /\ thms' = U.thms
         /\ full_data' = U.full_data
  /\ snap' = Append(snap, Heap)
  /\ pc' = "updated2"
  /\ UNCHANGED <<file, stack, ci, ti, current_category, theme_data, genre, prompt,
                 retry, attempt, log, result, requests, outcomes>>

InitUpdate == (\E d \in Datas(StoredThemes, MaxCats, MaxEntries) : InitHeap(d)) /\ InitRest

NextUpdate == test_update_data \/ test_update_data_again

SpecUpdate == InitUpdate /\ [][NextUpdate]_vars

\* update_markdown(full_data)
update_markdown ==
  /\ pc = "data"
  /\ file' = build_markdown(cats, thms, full_data)
  /\ pc' = "rendered"
  /\ UNCHANGED <<cats, thms, full_data, stack, ci, ti, current_category, theme_data,
                 genre, prompt, retry, attempt, log, result, requests, outcomes, snap>>

InitMarkdown == (\E d \in Datas(RenderedThemes, MaxCats, MaxEntries) : InitHeap(d)) /\ InitRest

NextMarkdown == update_markdown

SpecMarkdown == InitMarkdown /\ [][NextMarkdown]_vars

\* ------------------------------------------------- reading the document

\* the indices of doc that hold one of the atoms of set A
Places(doc, A) == {i \in 1..Len(doc) : doc[i] \in A}

RECURSIVE Back(_, _, _)
\* the last index of doc at or before j that holds an atom of A, 0 when none
Back(doc, j, A) ==
  IF j < 1 THEN 0 ELSE IF doc[j] \in A THEN j ELSE Back(doc, j - 1, A)

RECURSIVE Forward(_, _, _)
\* the first index of doc at or after j that holds an atom of A, Len(doc) + 1
\* when none
Forward(doc, j, A) ==
  IF j > Len(doc) THEN Len(doc) + 1
  ELSE IF doc[j] \in A THEN j ELSE Forward(doc, j + 1, A)

\* the greatest element of S below j, 0 when none
LastBelow(S, j) ==
  LET B == {i \in S : i < j}
  IN  IF B = {} THEN 0 ELSE CHOOSE i \in B : \A k \in B : k <= i

\* The essay sections a reader finds in doc: every genre heading with the text
\* up to its closing rule, the "### " subheading it stands under (the nearest
\* heading before it) and the "## " heading that subheading stands under.
Sections(doc) ==
  LET h2 == Places(doc, {H2})
  IN  { LET p == Back(doc, j, {H2, H3})
            q == LastBelow(h2, p)
        IN  [fenlei |-> IF p > 0 /\ doc[p] = H3 /\ q > 0 THEN doc[q + 1] ELSE "",
             zhuti |-> IF p > 0 /\ doc[p] = H3 THEN doc[p + 1] ELSE "",
             genre |-> IF doc[j] = H4Narrative THEN "narrative" ELSE "argumentative",
             content |-> SubSeq(doc, j + 1, Forward(doc, j + 1, {Rule}) - 1),
             at |-> j]
        : j \in Places(doc, {H4Narrative, H4Argumentative}) }

\* the number of indices of doc that hold atom a
Count(doc, a) == Cardinality({i \in 1..Len(doc) : doc[i] = a})

\* ------------------------------------------------- the requests of the matrix

RECURSIVE ThemesBefore(_)
\* the number of themes of the categories before category c
ThemesBefore(c) ==
  IF c <= 1 THEN 0 ELSE ThemesBefore(c - 1) + Len(theme_matrix[c - 1].zhuti)

TotalThemes == ThemesBefore(Len(theme_matrix) + 1)

\* generate_book's k-th request is for theme t of category c and genre g
RequestNo(c, t, g) ==
  2 * (ThemesBefore(c) + (t - 1)) + (IF g = "narrative" THEN 1 ELSE 2)

\* what generate_single_essay returned for the pair, None also while not asked
Outcome(c, t, g) ==
  IF RequestNo(c, t, g) <= Len(outcomes) THEN outcomes[RequestNo(c, t, g)] ELSE None

\* doc holds content in a section of genre g under theme t of category c
HasSection(doc, c, t, g, content) ==
  \E x \in Sections(doc) :
    /\ x.fenlei = theme_matrix[c].fenlei
    /\ x.zhuti = theme_matrix[c].zhuti[t]
    /\ x.genre = g
    /\ x.content = content

\* ------------------------------------------------------------- C1

\* C1: in every state of generate_book no category entry of full_data holds two
\* theme entries of the same theme name, and the final document has exactly one
\* "### zhuti" subheading per theme of the theme matrix.
C1_ThemesUnique ==
  /\ \A k \in 1..Len(full_data) :
       LET th == cats[full_data[k]].themes
       IN  \A i, j \in 1..Len(th) : i # j => thms[th[i]].zhuti # thms[th[j]].zhuti
  /\ pc = "done" => Count(file, H3) = TotalThemes

\* ------------------------------------------------------------- C2

\* the genre of the request answered last
LastGenre == IF Len(outcomes) % 2 = 1 THEN "narrative" ELSE "argumentative"

\* C2: whenever generate_single_essay returned an essay for a theme and genre,
\* the document written right after it, before the next API call, holds that
\* theme's subheading and, under it, that essay's content.
C2_SavedIncrementally ==
  (/\ stack = "book"
   /\ pc \in {"call", "theme_end"}
   /\ attempt = 0
   /\ Len(outcomes) > 0
   /\ Len(outcomes) = (IF pc = "call" THEN requests - 1 ELSE requests)
   /\ LastGenre = (IF pc = "call" THEN "narrative" ELSE "argumentative")
   /\ outcomes[Len(outcomes)] # None)
  => HasSection(file, ci, ti, LastGenre, outcomes[Len(outcomes)][1].content)

\* ------------------------------------------------------------- C3

\* the API calls recorded in a log
Tries(lg) == Cardinality({i \in 1..Len(lg) : lg[i] \in {"raise", "ok"}})

\* C3: for every retry count n >= 0 and every pattern of API outcomes,
\* call_deepseek attempts the API call at most n times (3 when the caller gives
\* no count), attempts nothing after the first call that succeeded, and sleeps
\* the 2 seconds, once, between any two consecutive attempts.
C3_BoundedRetry ==
  pc \in {"call", "returned"} =>
    /\ Tries(log) <= retry
    /\ Tries(log) = attempt
    /\ stack = "single" => retry = 3
    /\ \A i \in 1..Len(log) :
         /\ log[i] = "ok" => i = Len(log) /\ pc = "returned"
         /\ log[i] = "raise" => i < Len(log) /\ log[i + 1] = "sleep2"
         /\ log[i] = "sleep2" => i > 1 /\ log[i - 1] = "raise"
         /\ log[i] \in {"ok", "raise", "sleep2"}
    /\ pc = "returned" /\ (Len(log) = 0 \/ log[Len(log)] # "ok") => Tries(log) = retry

\* call_deepseek(prompt, 4) has returned after two failures and a success
C3_Witness ==
  /\ stack = "direct"
  /\ pc = "returned"
  /\ retry = 4
  /\ log = <<"raise", "sleep2", "raise", "sleep2", "ok">>
  /\ result # None

\* ------------------------------------------------------------- C4

\* a step of generate_book that skips the piece of the request in progress
SkipsPiece ==
  /\ outcomes' = Append(outcomes, None)
  /\ cats' = cats
  /\ thms' = thms
  /\ full_data' = full_data
  /\ file' = file
  /\ theme_data' = theme_data
  /\ current_category' = current_category
  /\ IF genre = "narrative"
     THEN pc' = "call" /\ genre' = "argumentative" /\ requests' = requests + 1
     ELSE pc' = "theme_end"

\* C4: when the last retry attempt of a request of generate_book fails too,
\* generate_single_essay returns None and generate_book skips the piece: the
\* genre's key is not set, full_data and the saved file are left unchanged, and
\* generate_book goes on with the next genre or with the end of the theme.
C4_FailedPieceSkipped ==
  (pc = "call" /\ stack = "book" /\ attempt + 1 = retry /\ MayFail)
  => /\ ENABLED ApiRaise
     /\ ~ENABLED (ApiRaise /\ ~SkipsPiece)

\* two attempts of a request of generate_book have failed after an essay was
\* saved, and the failure of the third makes generate_book skip the piece
C4_Witness ==
  /\ stack = "book"
  /\ pc = "call"
  /\ attempt = 2
  /\ retry = 3
  /\ log = <<"raise", "sleep2", "raise", "sleep2">>
  /\ genre = "argumentative"
  /\ file # NoFile
  /\ ENABLED (ApiRaise /\ SkipsPiece)

\* ------------------------------------------------------------- C5

\* the least element of a non-empty set of numbers
Least(S) == CHOOSE x \in S : \A y \in S : x <= y

\* the entries of full_data, in the heap h, of the category named as cc
Matching(h, cc) ==
  {i \in 1..Len(h.full_data) : h.cats[h.full_data[i]].fenlei = h.cats[cc].fenlei}

\* the places, in the themes of category object c, of the theme named as td
Present(h, c, td) ==
  {x \in 1..Len(h.cats[c].themes) : h.thms[h.cats[c].themes[x]].zhuti = h.thms[td].zhuti}

\* _update_data was called with a theme whose name the matching category holds
ThemePresent ==
  /\ pc \in {"updated", "updated2"}
  /\ Matching(snap[1], current_category) # {}
  /\ Present(snap[1], snap[1].full_data[Least(Matching(snap[1], current_category))],
             theme_data) # {}

\* C5: _update_data called with a theme whose name is present in the matching
\* category of full_data writes the fields of theme_data over the stored theme
\* and duplicates nothing: the categories and the theme entries of every
\* category are the same as before, only the stored theme has changed, and a
\* second call with the same arguments changes nothing.
C5_UpdateOverwrites ==
  ThemePresent =>
    LET b == snap[1]
        c == b.full_data[Least(Matching(b, current_category))]
        e == b.cats[c].themes[Least(Present(b, c, theme_data))]
        td == b.thms[theme_data]
    IN  /\ full_data = b.full_data
        /\ cats = b.cats
        /\ DOMAIN thms = DOMAIN b.thms
        /\ \A x \in DOMAIN thms : x # e => thms[x] = b.thms[x]
        /\ thms[e].fenlei = td.fenlei
        /\ thms[e].zhuti = td.zhuti
        /\ thms[e].guanjianci = td.guanjianci
        /\ \A g \in Genres :
             thms[e][g] = (IF td[g] # None THEN td[g] ELSE b.thms[e][g])
        /\ pc = "updated2" => Heap = snap[2]

\* _update_data has been called twice with a new theme_data whose name the
\* matching category held, and the first call has rewritten the stored theme
C5_Witness ==
  /\ ThemePresent
  /\ pc = "updated2"
  /\ theme_data = Len(thms)
  /\ thms # SubSeq(snap[1].thms, 1, Len(thms))
  /\ \E x \in 1..(Len(thms) - 1) :
       /\ thms[x].narrative = thms[theme_data].narrative
       /\ snap[1].thms[x].narrative # thms[x].narrative
       /\ thms[x].argumentative = None

\* ------------------------------------------------------------- C6

RECURSIVE PlacesFrom(_, _, _)
\* the indices of doc from i on that hold an atom of A, in order
PlacesFrom(doc, A, i) ==
  IF i > Len(doc) THEN <<>>
  ELSE (IF doc[i] \in A THEN <<i>> ELSE <<>>) \o PlacesFrom(doc, A, i + 1)

RECURSIVE ThemeRefs(_, _)
\* the theme entries of the categories of data, in order
ThemeRefs(C, data) ==
  IF data = <<>> THEN <<>> ELSE C[data[1]].themes \o ThemeRefs(C, Tail(data))

\* C6: build_markdown emits one "## category" heading per category entry and
\* one "### zhuti" subheading per theme entry, in the order of the structure,
\* and under a theme's subheading a narrative section iff the theme has the
\* key narrative and an argumentative section iff it has the key
\* argumentative, each with the essay's content, the narrative one first.
C6_MarkdownLayout ==
  pc = "rendered" =>
    LET h2 == PlacesFrom(file, {H2}, 1)
        h3 == PlacesFrom(file, {H3}, 1)
        refs == ThemeRefs(cats, full_data)
    IN  /\ Len(h2) = Len(full_data)
        /\ \A i \in 1..Len(h2) : file[h2[i] + 1] = cats[full_data[i]].fenlei
        /\ Len(h3) = Len(refs)
        /\ \A k \in 1..Len(h3) :
             LET theme == thms[refs[k]]
                 under == {x \in Sections(file) :
                             /\ h3[k] < x.at
                             /\ x.at < Forward(file, h3[k] + 1, {H2, H3})}
                 of(g) == {x \in under : x.genre = g}
             IN  /\ file[h3[k] + 1] = theme.zhuti
                 /\ \A g \in Genres :
                      /\ Cardinality(of(g)) = (IF HasKey(theme, g) THEN 1 ELSE 0)
                      /\ \A x \in of(g) : x.content = theme[g][1].content
                 /\ \A x \in of("narrative") : \A y \in of("argumentative") : x.at < y.at
        /\ \A x \in Sections(file) : \E k \in 1..Len(h3) : h3[k] < x.at

\* a document was built from two categories, the first without themes, the
\* second with a theme of both essays, one of an argumentative only, one of none
C6_Witness ==
  /\ pc = "rendered"
  /\ Len(full_data) = 2
  /\ Len(cats[full_data[1]].themes) = 0
  /\ LET th == cats[full_data[2]].themes
     IN  /\ Len(th) = 3
         /\ HasKey(thms[th[1]], "narrative") /\ HasKey(thms[th[1]], "argumentative")
         /\ ~HasKey(thms[th[2]], "narrative") /\ HasKey(thms[th[2]], "argumentative")
         /\ ~HasKey(thms[th[3]], "narrative") /\ ~HasKey(thms[th[3]], "argumentative")
  /\ Count(file, H4Argumentative) = 2

\* ------------------------------------------------------------- C7

\* the items of list with the separator between each two of them
Separated(list) ==
  [i \in 1..(IF Len(list) = 0 THEN 0 ELSE 2 * Len(list) - 1) |->
     IF i % 2 = 1 THEN list[(i + 1) \div 2] ELSE ","]

\* C7: the prompt generate_single_essay sends is the text of the genre's
\* template with the theme name in the place of {theme}, the first keyword in
\* the two places of {object} (narrative) and the keywords, in list order with
\* the separator between them, in the place of {keywords} (argumentative), the
\* values taken as they are; nothing is sent only when there is no keyword.
C7_PromptVerbatim ==
  stack = "single" =>
    LET info == thms[theme_data]
        kw == info.guanjianci
    IN  /\ pc = "raised" => kw = <<>>
        /\ pc \in {"call", "returned"} =>
             /\ kw # <<>>
             /\ genre = "narrative" =>
                  prompt = <<"N0", info.zhuti, "N1", kw[1], "N2", kw[1], "N3">>
             /\ genre = "argumentative" =>
                  prompt = <<"A0", info.zhuti, "A1">> \o Separated(kw)

\* generate_single_essay has sent the argumentative prompt of a theme whose
\* name and first keyword read like replacement fields
C7_Witness ==
  /\ stack = "single"
  /\ pc = "call"
  /\ genre = "argumentative"
  /\ prompt = <<"A0", "{keywords}", "A1", "{object}", ",", "jianchi">>

\* ------------------------------------------------------------- C8

\* the theme/genre pairs of the theme matrix
Pairs ==
  UNION {{<<c, t, g>> : t \in 1..Len(theme_matrix[c].zhuti), g \in Genres} :
           c \in 1..Len(theme_matrix)}

\* the essays generate_single_essay has returned, each with its category, its
\* theme and its genre
EssaysReturned ==
  {[fenlei |-> theme_matrix[x[1]].fenlei,
    zhuti |-> theme_matrix[x[1]].zhuti[x[2]],
    genre |-> x[3],
    content |-> Outcome(x[1], x[2], x[3])[1].content] :
     x \in {y \in Pairs : Outcome(y[1], y[2], y[3]) # None}}

\* the essays a reader finds in doc, each with the category and the theme it
\* stands under and its genre
EssaysIn(doc) ==
  {[fenlei |-> x.fenlei, zhuti |-> x.zhuti, genre |-> x.genre, content |-> x.content] :
     x \in Sections(doc)}

\* C8: when generate_book finishes, the last document written holds, for every
\* pair whose generation succeeded, that essay's content in a section under its
\* theme and category, and no essay section for a pair whose generation failed;
\* the latter holds of the saved document at the end of every theme as well.
C8_FinalDocument ==
  /\ pc = "theme_end" => EssaysIn(file) \subseteq EssaysReturned
  /\ pc = "done" => EssaysIn(file) = EssaysReturned

\* generate_book has finished with essays that succeeded and essays that failed
C8_Witness ==
  /\ pc = "done"
  /\ \E k \in 1..Len(outcomes) : outcomes[k] # None
  /\ \E k \in 1..Len(outcomes) : outcomes[k] = None

\* ------------------------------------------------------------- C9

\* the steps generate_book can still take
Measure ==
  IF pc = "done" THEN 0
  ELSE IF pc = "init" THEN 3 * (2 * TotalThemes) + TotalThemes + 2
  ELSE 3 * (2 * TotalThemes - requests)
       + (IF pc = "call" THEN retry - attempt ELSE 0)
       + (TotalThemes - (ThemesBefore(ci) + ti - 1))
       + 1

\* C9: generate_book terminates for every pattern of API outcomes: every step
\* brings it nearer to its end and it is not stuck before the end (the start
\* and the end of a theme can be taken, a call whose loop goes on can fail, and
\* a call is in an iteration of its loop, where the API can answer); it makes
\* the two requests of a theme in order, narrative first, whatever the first
\* returned, at most 18 requests of at most 3 attempts each (54 attempts), and
\* it ends with an update_markdown write of full_data.
C9_Terminates ==
  /\ [](/\ requests <= 18
        /\ 3 * requests <= 54
        /\ pc \in {"init", "call", "theme_end", "done"}
        /\ pc = "init" => ENABLED generate_book_begin
        /\ pc = "call" => /\ retry = DefaultRetry
                          /\ attempt < retry
                          /\ LoopRuns(attempt, retry)
                          /\ LoopRuns(attempt + 1, retry) => ENABLED ApiRaise
                          /\ requests = RequestNo(ci, ti, genre)
                          /\ Len(outcomes) = requests - 1
        /\ pc = "theme_end" => /\ Len(outcomes) = requests
                               /\ requests = RequestNo(ci, ti, "argumentative")
                               /\ ENABLED theme_end
        /\ pc = "done" => /\ requests = 18
                          /\ Len(outcomes) = 18
                          /\ file = build_markdown(cats, thms, full_data))
  /\ [][Measure' < Measure]_vars

\* generate_book has finished after a narrative request that failed and the
\* argumentative request of the same theme, which succeeded
C9_Witness ==
  /\ pc = "done"
  /\ requests = 18
  /\ outcomes[1] = None
  /\ outcomes[2] # None

\* ------------------------------------------------------------- C10

\* the index in theme_matrix of the category of that name, 0 when none
MatrixIndex(name) ==
  IF \E c \in 1..Len(theme_matrix) : theme_matrix[c].fenlei = name
  THEN CHOOSE c \in 1..Len(theme_matrix) : theme_matrix[c].fenlei = name
  ELSE 0

\* C10: in every state of generate_book full_data holds at most one entry per
\* category name, in theme-matrix order; at termination it holds exactly one
\* entry for every category of the matrix, also for a category all of whose
\* requests failed, and every theme of the category is in the entry.
C10_Categories ==
  /\ \A i \in 1..Len(full_data) : MatrixIndex(cats[full_data[i]].fenlei) > 0
  /\ \A i, j \in 1..Len(full_data) :
       i < j => MatrixIndex(cats[full_data[i]].fenlei) < MatrixIndex(cats[full_data[j]].fenlei)
  /\ pc = "done" =>
       /\ Len(full_data) = Len(theme_matrix)
       /\ \A c \in 1..Len(theme_matrix) :
            /\ cats[full_data[c]].fenlei = theme_matrix[c].fenlei
            /\ \A t \in 1..Len(theme_matrix[c].zhuti) :
                 \E x \in 1..Len(cats[full_data[c]].themes) :
                   thms[cats[full_data[c]].themes[x]].zhuti = theme_matrix[c].zhuti[t]

\* generate_book has finished, every request of the second category has failed
\* and a request of the first has succeeded
C10_Witness ==
  /\ pc = "done"
  /\ Len(full_data) = Len(theme_matrix)
  /\ \A t \in 1..Len(theme_matrix[2].zhuti) : \A g \in Genres : Outcome(2, t, g) = None
  /\ Outcome(1, 1, "narrative") # None

====
